---- MODULE Spec2Model ----
(***************************************************************************)
(* State-machine model of the IRVE cleaning pipeline (utils/prep.py), its  *)
(* loaders (utils/io.py, app.py) and the dashboard script (app.py).        *)
(*                                                                         *)
(* A table (DataFrame) is a sequence of rows; a row is a record of cells.  *)
(* It also records whether lat / lon carry their final names and the dtype *)
(* of the commune-code column ("object": texts and NaN; "int64": read_csv  *)
(* found only digits).                                                     *)
(* A cell is a tagged record: missing (NaN / NaT / NA), a float, a Python  *)
(* int, a bool, an infinite float, or a text whose characters are kept as  *)
(* a sequence of one-character strings so that strip / lower / upper /     *)
(* zfill / slicing / parsing are computed, not assumed.                    *)
(* Numbers are integers (whole kW, whole degrees).                         *)
(***************************************************************************)
EXTENDS Integers, Sequences, FiniteSets, TLC

VARIABLES
    raw,        \* ghost: the table value handed to the run (never modified)
    obj,        \* the caller's table object, which in-place operations modify
    df,         \* the local name df of clean_data / data of app.py
    alias,      \* TRUE while df is the very object obj (no .copy() yet)
    pc,         \* position in the code
    run,        \* 1: first clean_data call, 2: second call
    mode,       \* how the second call got its argument: "none", "same", "fresh"
    pre,        \* ghost: df as clean_numerical_data saw it after coercion
    out1,       \* result of the first clean_data call
    loader,     \* "none" (clean_data called directly), "app", "io"
    src,        \* state of the CSV source: "ok", "missing", "unreadable"
    exc,        \* exception that escaped to the caller ("none" if none)
    calls,      \* set of stages and downstream steps executed so far
    sel,        \* the sidebar selection (operators, power range, gratuit)
    df_filtered \* app.py's filtered table

vars == <<raw, obj, df, alias, pc, run, mode, pre, out1, loader, src, exc,
          calls, sel, df_filtered>>

-----------------------------------------------------------------------------
(* Bounds of the model *)

MaxRows == 3        \* rows of a table whose location / power columns vary
MaxFeatRows == 2    \* rows of a table whose single feature column varies
MaxAppRows == 3     \* rows of a table loaded by the dashboard

-----------------------------------------------------------------------------
(* Cells *)

NaN == [k |-> "nan", v |-> 0, s |-> <<>>]
Num(n) == [k |-> "num", v |-> n, s |-> <<>>]
Int64(n) == [k |-> "int", v |-> n, s |-> <<>>]
Inf == [k |-> "inf", v |-> 1, s |-> <<>>]
NegInf == [k |-> "inf", v |-> -1, s |-> <<>>]
Bool(b) == [k |-> "bool", v |-> IF b THEN 1 ELSE 0, s |-> <<>>]
Str(t) == [k |-> "str", v |-> 0, s |-> t]
\* a Timestamp, kept as the number yyyymmdd
Timestamp(y, m, d) == [k |-> "ts", v |-> y * 10000 + m * 100 + d, s |-> <<>>]
\* a value of a Categorical column: its label
Cat(label) == [k |-> "cat", v |-> 0, s |-> <<label>>]
Absent == [k |-> "absent", v |-> 0, s |-> <<>>]

isna(c) == c.k = "nan"

-----------------------------------------------------------------------------
(* Text: sequences of one-character strings *)

UpperS == <<"A","B","C","D","E","F","G","H","I","J","K","L","M",
            "N","O","P","Q","R","S","T","U","V","W","X","Y","Z">>
LowerS == <<"a","b","c","d","e","f","g","h","i","j","k","l","m",
            "n","o","p","q","r","s","t","u","v","w","x","y","z">>
DigitS == <<"0","1","2","3","4","5","6","7","8","9">>
Whitespace == {" ", "\t", "\n"}

Min(a, b) == IF a <= b THEN a ELSE b

LowerChar(c) ==
    IF \E i \in 1..26 : UpperS[i] = c
    THEN LowerS[CHOOSE i \in 1..26 : UpperS[i] = c]
    ELSE c

UpperChar(c) ==
    IF \E i \in 1..26 : LowerS[i] = c
    THEN UpperS[CHOOSE i \in 1..26 : LowerS[i] = c]
    ELSE c

\* str.lower()
lower(t) == [i \in 1..Len(t) |-> LowerChar(t[i])]

\* str.upper()
upper(t) == [i \in 1..Len(t) |-> UpperChar(t[i])]

\* str.strip(): leading and trailing whitespace removed
strip(t) ==
    LET keep == {i \in 1..Len(t) : t[i] \notin Whitespace}
    IN  IF keep = {} THEN <<>>
        ELSE LET a == CHOOSE i \in keep : \A j \in keep : i <= j
                 b == CHOOSE i \in keep : \A j \in keep : i >= j
             IN  SubSeq(t, a, b)

\* str[:n]
Prefix(t, n) == SubSeq(t, 1, Min(n, Len(t)))

Zeros(n) == [i \in 1..n |-> "0"]

\* str.zfill(width): zeros on the left, after a leading sign if there is one
zfill(t, width) ==
    IF Len(t) >= width THEN t
    ELSE IF Len(t) > 0 /\ t[1] \in {"+", "-"}
         THEN <<t[1]>> \o Zeros(width - Len(t)) \o Tail(t)
         ELSE Zeros(width - Len(t)) \o t

IsDigit(c) == \E i \in 1..10 : DigitS[i] = c
DigitVal(c) == (CHOOSE i \in 1..10 : DigitS[i] = c) - 1
AllDigits(t) == Len(t) > 0 /\ \A i \in 1..Len(t) : IsDigit(t[i])

RECURSIVE DecVal(_)
DecVal(t) ==
    IF Len(t) = 0 THEN 0
    ELSE 10 * DecVal(SubSeq(t, 1, Len(t) - 1)) + DigitVal(t[Len(t)])

RECURSIVE NatStr(_)
NatStr(n) ==
    IF n < 10 THEN <<DigitS[n + 1]>>
    ELSE NatStr(n \div 10) \o <<DigitS[(n % 10) + 1]>>

IntStr(n) == IF n < 0 THEN <<"-">> \o NatStr(-n) ELSE NatStr(n)

\* Series.astype(str) of one cell
astype_str(c) ==
    CASE c.k = "str" -> c.s
      [] c.k = "nan" -> <<"n","a","n">>
      [] c.k = "int" -> IntStr(c.v)
      [] c.k = "num" -> IntStr(c.v) \o <<".","0">>
      [] c.k = "inf" -> IF c.v > 0 THEN <<"i","n","f">> ELSE <<"-","i","n","f">>
      [] c.k = "bool" -> IF c.v = 1 THEN <<"T","r","u","e">>
                                    ELSE <<"F","a","l","s","e">>
      [] OTHER -> <<"N","a","T">>

-----------------------------------------------------------------------------
(* Conversions of one cell *)

\* the float a text parses to under pd.to_numeric(errors='coerce'): an
\* optionally signed run of digits, or an optionally signed "inf"/"infinity"
\* in any case; anything else is coerced to NaN
ParseFloat(t) ==
    LET signed == Len(t) > 0 /\ t[1] \in {"+", "-"}
        neg == Len(t) > 0 /\ t[1] = "-"
        body == IF signed THEN Tail(t) ELSE t
    IN  IF AllDigits(body)
        THEN Num(IF neg THEN -DecVal(body) ELSE DecVal(body))
        ELSE IF lower(body) \in {<<"i","n","f">>,
                                 <<"i","n","f","i","n","i","t","y">>}
             THEN (IF neg THEN NegInf ELSE Inf)
             ELSE NaN

\* pd.to_numeric(series, errors='coerce'), one cell
to_numeric(c) ==
    CASE c.k \in {"num", "inf", "nan"} -> c
      [] c.k \in {"int", "bool"} -> Num(c.v)
      [] c.k = "str" -> ParseFloat(c.s)
      [] OTHER -> NaN

IsLeap(y) == (y % 4 = 0 /\ y % 100 # 0) \/ y % 400 = 0

DaysInMonth(y, m) ==
    IF m = 2 THEN (IF IsLeap(y) THEN 29 ELSE 28)
    ELSE IF m \in {4, 6, 9, 11} THEN 30 ELSE 31

\* the range of a nanosecond Timestamp, as yyyymmdd of the first and the
\* last whole day it can hold
TimestampMinDay == 16770922
TimestampMaxDay == 22620411

\* pd.to_datetime(series, errors='coerce') of a text "YYYY-MM-DD": NaT for
\* any other text, for a day that does not exist and for a day out of range
ParseDate(t) ==
    IF /\ Len(t) = 10
       /\ t[5] = "-" /\ t[8] = "-"
       /\ \A i \in {1, 2, 3, 4, 6, 7, 9, 10} : IsDigit(t[i])
    THEN LET y == DecVal(SubSeq(t, 1, 4))
             m == DecVal(SubSeq(t, 6, 7))
             d == DecVal(SubSeq(t, 9, 10))
             n == y * 10000 + m * 100 + d
         IN  IF /\ m \in 1..12
                /\ d >= 1 /\ d <= DaysInMonth(y, m)
                /\ n >= TimestampMinDay /\ n <= TimestampMaxDay
             THEN Timestamp(y, m, d)
             ELSE NaN
    ELSE NaN

to_datetime(c) ==
    CASE c.k = "ts" -> c
      [] c.k = "str" -> ParseDate(c.s)
      [] OTHER -> NaN

\* Series.dt.year of one cell (NaN for NaT)
dt_year(c) == IF c.k = "ts" THEN Num(c.v \div 10000) ELSE NaN

fillna(c, value) == IF isna(c) THEN value ELSE c

\* Series.replace(old, new) of one cell
replace(c, old, new) == IF c = old THEN new ELSE c

\* Series.astype(int) of a float cell without NaN
astype_int(c) == Int64(c.v)

-----------------------------------------------------------------------------
(* Tables *)

\* pd.DataFrame(): no column, no row
EmptyFrame == [renamed |-> FALSE, code_dtype |-> "object", rows |-> <<>>]

\* DataFrame.empty / Series.empty: no element on the row axis
empty(t) == Len(t.rows) = 0

MapRows(t, F(_)) == [t EXCEPT !.rows = [i \in 1..Len(t.rows) |-> F(t.rows[i])]]

FilterRows(t, P(_)) == [t EXCEPT !.rows = SelectSeq(t.rows, P)]

-----------------------------------------------------------------------------
(* clean_location *)

\* df.rename(columns={consolidated_latitude: lat, consolidated_longitude:
\* lon}): a table already carrying lat / lon is left as it is
rename_columns(t) == [t EXCEPT !.renamed = TRUE]

HasLocation(r) == ~isna(r.lat) /\ ~isna(r.lon)

\* df.dropna(subset=['lat', 'lon'])
dropna_location(t) == FilterRows(t, HasLocation)

CoerceLocationRow(r) ==
    [r EXCEPT !.lat = to_numeric(@), !.lon = to_numeric(@)]

\* the table clean_location leaves in the object it was given
LocationCleaned(t) ==
    dropna_location(MapRows(dropna_location(rename_columns(t)),
                            CoerceLocationRow))

-----------------------------------------------------------------------------
(* clean_numerical_data *)

CoerceNumericRow(r) ==
    [r EXCEPT !.puissance_nominale = to_numeric(@),
              !.nbre_pdc = to_numeric(@)]

\* the non-missing values of the power column, in row order
PowerValues(t) ==
    LET nn == SelectSeq(t.rows, LAMBDA r : ~isna(r.puissance_nominale))
    IN  [i \in 1..Len(nn) |-> nn[i].puissance_nominale.v]

\* the k-th smallest element (k = 1 is the minimum) of a sequence
Kth(vs, k) ==
    CHOOSE x \in {vs[i] : i \in 1..Len(vs)} :
        /\ Cardinality({i \in 1..Len(vs) : vs[i] < x}) < k
        /\ Cardinality({i \in 1..Len(vs) : vs[i] <= x}) >= k

\* Series.quantile(0.999), linear interpolation between the two order
\* statistics around position 0.999 * (n - 1), NaN skipped; in thousandths.
\* NaN when no value is left.
quantile_999(t) ==
    LET vs == PowerValues(t)
        n == Len(vs)
        pos == (n - 1) * 999
        lo == pos \div 1000
        frac == pos % 1000
        a == Kth(vs, lo + 1)
        b == Kth(vs, Min(lo + 2, n))
    IN  IF n = 0 THEN NaN ELSE Num(a * 1000 + (b - a) * frac)

\* mutant of KeepPower: the `| isna()` alternative forgotten
KeepPowerDropsMissing(c, p_999) ==
    ~isna(c) /\ ~isna(p_999) /\ c.v * 1000 <= p_999.v

\* (df.puissance_nominale <= p_999) | df.puissance_nominale.isna()
KeepPower(c, p_999) ==
    \/ (~isna(c) /\ ~isna(p_999) /\ c.v * 1000 <= p_999.v)
    \/ isna(c)

\* df[mask].copy()
OutlierFiltered(t) ==
    LET p_999 == quantile_999(t)
    IN  FilterRows(t, LAMBDA r : KeepPower(r.puissance_nominale, p_999))

\* line 23: the guard of the percentile step
PercentileStepRuns(t) == ~empty(t)

\* mutant of ObjAfterNumeric: the outliers dropped in place
ObjAfterNumericInPlace(coerced, filtered) == filtered

\* what the object passed to clean_numerical_data holds afterwards: the
\* coerced columns; the filtered rows go to a copy (line 25)
ObjAfterNumeric(coerced, filtered) == coerced

-----------------------------------------------------------------------------
(* clean_text_data, clean_categorical_data, clean_temporal_data *)

Inconnu == <<"I","n","c","o","n","n","u">>
OuiLabel == Str(<<"O","u","i">>)
NonLabel == Str(<<"N","o","n">>)
InconnuLabel == Str(Inconnu)

CleanTextRow(r) ==
    [r EXCEPT !.nom_operateur =
        Str(upper(strip(astype_str(fillna(@, Str(Inconnu))))))]

\* mutant of NormaliseToken: .str.lower() forgotten
NormaliseTokenNoLower(c) == strip(astype_str(c))

\* astype(str).str.strip().str.lower()
NormaliseToken(c) == lower(strip(astype_str(c)))

\* Series.map(mapping): NaN for a key the dict does not hold
MapGratuit(tok) ==
    CASE tok \in {<<"t","r","u","e">>, <<"1">>, <<"o","u","i">>} -> OuiLabel
      [] tok \in {<<"f","a","l","s","e">>, <<"0">>, <<"n","o","n">>} -> NonLabel
      [] OTHER -> NaN

CleanGratuit(c) == fillna(MapGratuit(NormaliseToken(c)), InconnuLabel)

CleanCategoricalRow(r) == [r EXCEPT !.gratuit = CleanGratuit(@)]

CleanTemporalRow(r) == [r EXCEPT !.date_mise_en_service = to_datetime(@)]

-----------------------------------------------------------------------------
(* feature engineers *)

bins == <<0, 11, 50, 150>>   \* the last band is open to the right: inf
labels == <<"Charge Lente (<11kW)", "Charge Acceleree (11-50kW)",   \* accents dropped
            "Charge Rapide (50-150kW)", "Charge Ultra-Rapide (>150kW)">>
Inconnue == "Inconnue"

\* mutant of InBand: pd.cut's default right=True
InBandRightClosed(i, v) ==
    /\ bins[i] < v
    /\ IF i < Len(bins) THEN v <= bins[i + 1] ELSE TRUE

\* does band i of pd.cut(..., right=False) hold the float v
InBand(i, v) ==
    /\ bins[i] <= v
    /\ IF i < Len(bins) THEN v < bins[i + 1] ELSE TRUE

\* pd.cut(series, bins, labels, right=False) of one cell: NaN for a missing
\* value and for a value in no band (inf is not below the last edge)
cut(c) ==
    IF c.k = "num" /\ \E i \in 1..Len(bins) : InBand(i, c.v)
    THEN Cat(labels[CHOOSE i \in 1..Len(bins) : InBand(i, c.v)])
    ELSE NaN

PowerCategory(c) == fillna(cut(c), Cat(Inconnue))

FeaturePowerRow(r) ==
    [r EXCEPT !.categorie_puissance = PowerCategory(r.puissance_nominale)]

\* mutant of YearOf: the 0 placeholder left in place
YearOfZeroKept(c) == astype_int(fillna(dt_year(c), Num(0)))

\* .dt.year.fillna(0).astype(int), then .replace(0, pd.NA)
YearOf(c) == replace(astype_int(fillna(dt_year(c), Num(0))), Int64(0), NaN)

FeatureTimeRow(r) ==
    [r EXCEPT !.annee_mes = YearOf(r.date_mise_en_service)]

\* line 90: astype(str).str.zfill(5).str[:2]
PaddedPrefix(c) == Str(Prefix(zfill(astype_str(c), 5), 2))

PaddedPrefixRow(r) ==
    [r EXCEPT !.code_departement = PaddedPrefix(r.code_insee_commune)]

\* line 92: the .str accessor of a column that is not of object dtype raises
\* AttributeError, whether or not any row is to be overwritten
StrAccessorRaises(t) == t.code_dtype # "object"

\* Series.str[:2] of the original column: NaN stays NaN
StrPrefix2(c) == IF c.k = "str" THEN Str(Prefix(c.s, 2)) ELSE NaN

\* line 92: the rows equal to '20' are overwritten with the first two
\* characters of the original code
DepartmentCode(c) ==
    IF PaddedPrefix(c) = Str(<<"2","0">>) THEN StrPrefix2(c)
    ELSE PaddedPrefix(c)

FeatureGeoRow(r) ==
    [r EXCEPT !.code_departement = DepartmentCode(r.code_insee_commune)]

-----------------------------------------------------------------------------
(* Inputs: the raw tables the runs are given *)

Row(id, lat, lon, p, op, g, date, code) ==
    [id |-> id, lat |-> lat, lon |-> lon,
     puissance_nominale |-> p, nbre_pdc |-> Int64(2),
     nom_operateur |-> op, gratuit |-> g,
     date_mise_en_service |-> date, code_insee_commune |-> code,
     categorie_puissance |-> Absent, annee_mes |-> Absent,
     code_departement |-> Absent]

DefaultLat == Num(48)
DefaultLon == Num(2)
DefaultPower == Num(22)
DefaultOperator == Str(<<" ","I","o","n","i","t","y"," ">>)
DefaultGratuit == Bool(FALSE)
DefaultDate == Str(<<"2","0","2","1","-","0","5","-","1","7">>)
DefaultCode == Str(<<"7","5","0","1","0">>)

LatCells == {Num(48), NaN, Str(<<"a","b","c">>), Str(<<"i","n","f">>)}
LonCells == {Num(2), Str(<<"x">>)}
PowerCells == {NaN, Str(<<"a","b","c">>), Num(10), Str(<<"1","1">>), Num(150)}
BandCells == {NaN, Num(-5), Num(0), Num(10), Num(11), Num(49), Num(50),
              Num(149), Num(150), Num(200)}
GratuitCells == {Bool(TRUE),
                 Bool(FALSE),
                 Int64(1),
                 Int64(0),
                 Int64(2),
                 Num(1),
                 NaN,
                 Str(<<" ","O","u","i"," ">>),
                 Str(<<"N","O","N">>),
                 Str(<<"T","r","u","e">>),
                 Str(<<"f","a","l","s","e">>),
                 Str(<<"0">>),
                 Str(<<"y","e","s">>),
                 Str(<<>>)}
DateCells == {NaN,
              Str(<<"a","b","c">>),
              Str(<<"2","0","2","1","-","0","5","-","1","7">>),
              Str(<<"2","0","2","4","-","0","2","-","2","9">>),
              Str(<<"2","0","2","1","-","0","2","-","3","0">>),
              Str(<<"0","0","0","0","-","0","1","-","0","1">>),
              Str(<<"1","6","7","7","-","0","9","-","2","1">>),
              Str(<<"2","2","6","2","-","0","4","-","1","1">>),
              Str(<<"2","2","6","2","-","0","4","-","1","2">>),
              Str(<<>>)}
\* a commune-code column that read_csv parsed as integers
IntCodeCells == {Int64(75010), Int64(1001), Int64(20000)}
CodeCells == {NaN,
              Str(<<"7","5","0","1","0">>),
              Str(<<"9","7","4","1","1">>),
              Str(<<"1","0","0","1">>),
              Str(<<"2","A","0","0","4">>),
              Str(<<"2","B","0","3","3">>),
              Str(<<"2","0","0","0","0">>),
              Str(<<"2","0">>),
              Str(<<>>)}

\* the values one row takes in each family of inputs, as
\* <<lat, lon, power, operator, gratuit, date, code>>
LocationInputs ==
    {<<la, lo, DefaultPower, DefaultOperator, DefaultGratuit, DefaultDate,
       DefaultCode>> : la \in LatCells, lo \in LonCells}
NumericInputs ==
    {<<DefaultLat, DefaultLon, p, DefaultOperator, DefaultGratuit,
       DefaultDate, DefaultCode>> : p \in PowerCells}
    \cup {<<NaN, DefaultLon, Num(10), DefaultOperator, DefaultGratuit,
            DefaultDate, DefaultCode>>}
BandInputs ==
    {<<DefaultLat, DefaultLon, p, DefaultOperator, DefaultGratuit,
       DefaultDate, DefaultCode>> : p \in BandCells}
GratuitInputs ==
    {<<DefaultLat, DefaultLon, DefaultPower, DefaultOperator, g,
       DefaultDate, DefaultCode>> : g \in GratuitCells}
DateInputs ==
    {<<DefaultLat, DefaultLon, DefaultPower, DefaultOperator,
       DefaultGratuit, d, DefaultCode>> : d \in DateCells}
CodeInputs ==
    {<<DefaultLat, DefaultLon, DefaultPower, DefaultOperator,
       DefaultGratuit, DefaultDate, c>> : c \in CodeCells}
IntCodeInputs ==
    {<<DefaultLat, DefaultLon, DefaultPower, DefaultOperator,
       DefaultGratuit, DefaultDate, c>> : c \in IntCodeCells}
AppInputs ==
    {<<Num(48), DefaultLon, Num(7), Str(<<"a">>), Bool(TRUE), DefaultDate, DefaultCode>>,
     <<Num(48), DefaultLon, Num(9), Str(<<" ","A">>), Str(<<"n","o","n">>), DefaultDate, DefaultCode>>,
     <<Num(48), DefaultLon, Num(9), Str(<<"b">>), NaN, DefaultDate, DefaultCode>>,
     <<Num(48), DefaultLon, NaN, NaN, Bool(TRUE), DefaultDate, DefaultCode>>,
     <<Num(48), DefaultLon, NaN, Str(<<"b">>), Str(<<"n","o","n">>), DefaultDate, DefaultCode>>,
     <<NaN, DefaultLon, Num(7), Str(<<"b">>), Int64(1), DefaultDate, DefaultCode>>}

\* the tables of at most n rows whose rows are drawn from a family; the
\* index labels are 1..len
TablesOf(inputs, n, dtype) ==
    {[renamed |-> FALSE, code_dtype |-> dtype,
      rows |-> [i \in 1..Len(q) |->
                  Row(i, q[i][1], q[i][2], q[i][3], q[i][4], q[i][5],
                      q[i][6], q[i][7])]] :
       q \in UNION {[1..k -> inputs] : k \in 0..n}}

PipelineTables ==
    TablesOf(LocationInputs, MaxRows, "object")
    \cup TablesOf(NumericInputs, MaxRows, "object")
    \cup TablesOf(BandInputs, MaxFeatRows, "object")
    \cup TablesOf(GratuitInputs, MaxFeatRows, "object")
    \cup TablesOf(DateInputs, MaxFeatRows, "object")
    \cup TablesOf(CodeInputs, MaxFeatRows, "object")
    \cup TablesOf(IntCodeInputs, MaxFeatRows, "int64")

AppTables == TablesOf(AppInputs, MaxAppRows, "object")

-----------------------------------------------------------------------------
(* The state machine *)

Tous == Str(<<"T","o","u","s">>)
NoSelection == [ops |-> {}, lo |-> 0, hi |-> 0, gratuit |-> Tous]

Sources(l) == IF l = "none" THEN {"ok"} ELSE {"ok", "missing", "unreadable"}

Init ==
    /\ loader \in {"none", "app", "io"}
    /\ src \in Sources(loader)
    /\ raw \in (IF loader = "none" THEN PipelineTables
                ELSE IF src = "ok" THEN AppTables ELSE {EmptyFrame})
    /\ obj = (IF loader = "none" THEN raw ELSE EmptyFrame)
    /\ df = obj
    /\ alias = TRUE
    /\ pc = (IF loader = "none" THEN "clean_location" ELSE "load")
    /\ run = 1
    /\ mode = "none"
    /\ pre = EmptyFrame
    /\ out1 = EmptyFrame
    /\ exc = "none"
    /\ calls = {}
    /\ sel = NoSelection
    /\ df_filtered = EmptyFrame

(* ---- the loaders: app.py load_data, utils/io.py load_and_clean_data ---- *)

\* pd.read_csv succeeds and clean_data is called on its result
read_csv ==
    /\ pc = "load" /\ src = "ok"
    /\ obj' = raw /\ df' = raw /\ alias' = TRUE
    /\ pc' = "clean_location"
    /\ UNCHANGED <<raw, run, mode, pre, out1, loader, src, exc, calls, sel,
                   df_filtered>>

\* except FileNotFoundError: return pd.DataFrame()
load_file_not_found ==
    /\ pc = "load" /\ src = "missing"
    /\ df' = EmptyFrame /\ pc' = "loaded"
    /\ UNCHANGED <<raw, obj, alias, run, mode, pre, out1, loader, src, exc,
                   calls, sel, df_filtered>>

\* the loaders that have an `except Exception` clause
CatchesAnyException(l) == l = "io"

\* any other failure of pd.read_csv
load_read_error ==
    /\ pc = "load" /\ src = "unreadable"
    /\ IF CatchesAnyException(loader)
       THEN df' = EmptyFrame /\ pc' = "loaded" /\ exc' = exc
       ELSE df' = df /\ pc' = "raised" /\ exc' = "Exception"
    /\ UNCHANGED <<raw, obj, alias, run, mode, pre, out1, loader, src,
                   calls, sel, df_filtered>>

(* ---- clean_data and its stages ---- *)

\* a stage that assigns columns of df (and so of the object df names)
Stage(name, next, result) ==
    /\ pc = name
    /\ df' = result
    /\ obj' = (IF alias THEN result ELSE obj)
    /\ calls' = calls \cup {name}
    /\ pc' = next
    /\ UNCHANGED <<raw, alias, run, mode, pre, out1, loader, src, exc, sel,
                   df_filtered>>

clean_location ==
    Stage("clean_location", "clean_numerical_data", LocationCleaned(df))

clean_numerical_data ==
    /\ pc = "clean_numerical_data"
    /\ LET coerced == MapRows(df, CoerceNumericRow)
           filtered == OutlierFiltered(coerced)
       IN  /\ pre' = coerced
           /\ IF PercentileStepRuns(coerced)
              THEN /\ df' = filtered
                   /\ obj' = (IF alias THEN ObjAfterNumeric(coerced, filtered)
                              ELSE obj)
                   /\ alias' = FALSE
              ELSE /\ df' = coerced
                   /\ obj' = (IF alias THEN coerced ELSE obj)
                   /\ alias' = alias
    /\ calls' = calls \cup {"clean_numerical_data"}
    /\ pc' = "clean_text_data"
    /\ UNCHANGED <<raw, run, mode, out1, loader, src, exc, sel, df_filtered>>

clean_text_data ==
    Stage("clean_text_data", "clean_categorical_data",
          MapRows(df, CleanTextRow))

\* utils/prep.py clean_categorical_data, app.py clean_boolean_data
clean_categorical_data ==
    Stage("clean_categorical_data", "clean_temporal_data",
          MapRows(df, CleanCategoricalRow))

\* app.py's clean_data returns after the date conversion
AfterTemporal(l) == IF l = "app" THEN "return" ELSE "feature_engineer_power"

clean_temporal_data ==
    Stage("clean_temporal_data", AfterTemporal(loader),
          MapRows(df, CleanTemporalRow))

feature_engineer_power ==
    Stage("feature_engineer_power", "feature_engineer_time",
          MapRows(df, FeaturePowerRow))

feature_engineer_time ==
    Stage("feature_engineer_time", "feature_engineer_geo",
          MapRows(df, FeatureTimeRow))

\* line 90 assigns the padded prefix; line 92 either raises, and clean_data
\* returns nothing, or overwrites the '20' rows
feature_engineer_geo ==
    IF StrAccessorRaises(df)
    THEN /\ pc = "feature_engineer_geo"
         /\ df' = MapRows(df, PaddedPrefixRow)
         /\ obj' = (IF alias THEN df' ELSE obj)
         /\ calls' = calls \cup {"feature_engineer_geo"}
         /\ exc' = "AttributeError"
         /\ pc' = "raised"
         /\ UNCHANGED <<raw, alias, run, mode, pre, out1, loader, src, sel,
                        df_filtered>>
    ELSE Stage("feature_engineer_geo", "return", MapRows(df, FeatureGeoRow))

\* return df
clean_data_return ==
    /\ pc = "return"
    /\ pc' = (IF loader = "none" THEN "returned" ELSE "loaded")
    /\ out1' = (IF loader = "none" /\ run = 1 THEN df ELSE out1)
    /\ UNCHANGED <<raw, obj, df, alias, run, mode, pre, loader, src, exc,
                   calls, sel, df_filtered>>

\* clean_data is called again on the object the first call was given
clean_data_again_same_object ==
    /\ pc = "returned" /\ run = 1
    /\ df' = obj /\ alias' = TRUE
    /\ run' = 2 /\ mode' = "same" /\ pc' = "clean_location"
    /\ calls' = {}
    /\ UNCHANGED <<raw, obj, pre, out1, loader, src, exc, sel, df_filtered>>

\* clean_data is called again on a fresh table equal to the raw input
clean_data_again_fresh ==
    /\ pc = "returned" /\ run = 1
    /\ df' = raw /\ obj' = raw /\ alias' = TRUE
    /\ run' = 2 /\ mode' = "fresh" /\ pc' = "clean_location"
    /\ calls' = {}
    /\ UNCHANGED <<raw, pre, out1, loader, src, exc, sel, df_filtered>>

(* ---- app.py, after data = load_data(...) ---- *)

\* mutant of ShouldStop: only the failed-load sentinel stops the script
ShouldStopNoColumns(t) == t = EmptyFrame

\* line 83: if data.empty
ShouldStop(t) == empty(t)

\* st.stop(): the script run ends here
stop_on_empty ==
    /\ pc = "loaded" /\ loader = "app"
    /\ ShouldStop(df)
    /\ pc' = "stopped"
    /\ UNCHANGED <<raw, obj, df, alias, run, mode, pre, out1, loader, src,
                   exc, calls, sel, df_filtered>>

\* sorted(data['nom_operateur'].dropna().unique()), as a set
all_operators(t) ==
    {t.rows[i].nom_operateur : i \in 1..Len(t.rows)} \ {NaN}

\* ['Tous'] + list(data['gratuit'].unique())
all_gratuite_options(t) ==
    {Tous} \cup {t.rows[i].gratuit : i \in 1..Len(t.rows)}

\* int(x) of a float: truncation, which leaves a whole number as it is
int_of(x) == x

\* Series.min() / Series.max(), NaN skipped
min_power(t) == int_of(Kth(PowerValues(t), 1))
max_power(t) == int_of(Kth(PowerValues(t), Len(PowerValues(t))))

\* the sidebar: the three controls are computed from data and the user
\* picks a selection; int(NaN) raises when no power value is left
sidebar ==
    /\ pc = "loaded" /\ loader = "app"
    /\ ~ShouldStop(df)
    /\ calls' = calls \cup {"sidebar"}
    /\ IF Len(PowerValues(df)) = 0
       THEN /\ exc' = "ValueError" /\ pc' = "raised" /\ sel' = sel
       ELSE /\ \E ops \in SUBSET all_operators(df),
                  lo \in min_power(df)..max_power(df),
                  hi \in min_power(df)..max_power(df),
                  g \in all_gratuite_options(df) :
                    /\ lo <= hi
                    /\ sel' = [ops |-> ops, lo |-> lo, hi |-> hi,
                               gratuit |-> g]
            /\ exc' = exc /\ pc' = "filter"
    /\ UNCHANGED <<raw, obj, df, alias, run, mode, pre, out1, loader, src,
                   df_filtered>>

\* mutant of InPowerRange: missing powers let through, as the outlier
\* stage does
InPowerRangeOrMissing(c, lo, hi) == isna(c) \/ (c.v >= lo /\ c.v <= hi)

\* (col >= selected_power[0]) & (col <= selected_power[1]): a comparison
\* with NaN is False
InPowerRange(c, lo, hi) == ~isna(c) /\ c.v >= lo /\ c.v <= hi

\* lines 129-139: the three filters, applied one after the other
FilterKeeps(r, s) ==
    /\ r.nom_operateur \in s.ops
    /\ InPowerRange(r.puissance_nominale, s.lo, s.hi)
    /\ (s.gratuit # Tous => r.gratuit = s.gratuit)

apply_filters ==
    /\ pc = "filter"
    /\ df_filtered' = FilterRows(df, LAMBDA r : FilterKeeps(r, sel))
    /\ calls' = calls \cup {"filter"}
    /\ pc' = "render"
    /\ UNCHANGED <<raw, obj, df, alias, run, mode, pre, out1, loader, src,
                   exc, sel>>

\* lines 141-219: KPIs, map, charts, preview
render ==
    /\ pc = "render"
    /\ calls' = calls \cup {"render"}
    /\ pc' = "finished"
    /\ UNCHANGED <<raw, obj, df, alias, run, mode, pre, out1, loader, src,
                   exc, sel, df_filtered>>

Next ==
    \/ read_csv
    \/ load_file_not_found
    \/ load_read_error
    \/ clean_location
    \/ clean_numerical_data
    \/ clean_text_data
    \/ clean_categorical_data
    \/ clean_temporal_data
    \/ feature_engineer_power
    \/ feature_engineer_time
    \/ feature_engineer_geo
    \/ clean_data_return
    \/ clean_data_again_same_object
    \/ clean_data_again_fresh
    \/ stop_on_empty
    \/ sidebar
    \/ apply_filters
    \/ render

Spec == Init /\ [][Next]_vars

-----------------------------------------------------------------------------
(* Properties *)

Rows(t) == {t.rows[i] : i \in 1..Len(t.rows)}
Did(stage) == stage \in calls

\* the raw row an output row comes from (index labels are kept by every stage)
RawRow(r) == raw.rows[r.id]

\* the non-missing power values in ascending order
SortedPowers(t) ==
    LET vs == PowerValues(t)
        n == Len(vs)
    IN  CHOOSE q \in [1..n -> {vs[i] : i \in 1..n}] :
            /\ \A i \in 1..(n - 1) : q[i] <= q[i + 1]
            /\ \A x \in {vs[i] : i \in 1..n} :
                   Cardinality({i \in 1..n : q[i] = x})
                     = Cardinality({i \in 1..n : vs[i] = x})

\* v <= the 99.9th percentile of the non-missing powers of t: the value at
\* rank 0.999 * (n - 1) of the sorted values, interpolated linearly
AtMostP999(v, t) ==
    LET q == SortedPowers(t)
        n == Len(q)
        lo == ((n - 1) * 999) \div 1000
        frac == ((n - 1) * 999) % 1000
        hi == IF frac = 0 THEN lo ELSE lo + 1
    IN  n > 0 /\ 1000 * v <= 1000 * q[lo + 1] + frac * (q[hi + 1] - q[lo + 1])

C2_LoadFailureYieldsEmpty ==
    (src # "ok" /\ pc # "load") =>
        /\ exc = "none"
        /\ pc = "loaded" \/ pc = "stopped"
        /\ df = EmptyFrame
        /\ calls = {}

\* C3: after clean_categorical_data every gratuit is Oui, Non or Inconnu:
\* Oui when the trimmed lower-cased text of the raw value is true / 1 / oui,
\* Non when it is false / 0 / non, Inconnu otherwise (a missing value too).
C3_GratuitTriState ==
    Did("clean_categorical_data") =>
        \A r \in Rows(df) :
            LET tok == lower(strip(astype_str(RawRow(r).gratuit)))
            IN  /\ r.gratuit \in {OuiLabel, NonLabel, InconnuLabel}
                /\ (r.gratuit = OuiLabel) <=>
                       tok \in {<<"t","r","u","e">>, <<"1">>, <<"o","u","i">>}
                /\ (r.gratuit = NonLabel) <=>
                       tok \in {<<"f","a","l","s","e">>, <<"0">>, <<"n","o","n">>}
                /\ (isna(RawRow(r).gratuit) => r.gratuit = InconnuLabel)

\* C3 witness: the pipeline returned a table in which a raw " Oui " became
\* Oui and a missing value became Inconnu.
C3_Witness ==
    /\ pc = "returned"
    /\ \E r \in Rows(df) :
           RawRow(r).gratuit = Str(<<" ","O","u","i"," ">>) /\ r.gratuit = OuiLabel
    /\ \E r \in Rows(df) : isna(RawRow(r).gratuit) /\ r.gratuit = InconnuLabel

\* C4: in the table feature_engineer_geo produces, code_departement is the
\* first two characters of the commune code zero-padded to five, except that
\* a padded prefix "20" resolves to "2A" or "2B"; it is always a text of two
\* characters.
C4_DepartmentCode ==
    (Did("feature_engineer_geo") /\ exc = "none") =>
        \A r \in Rows(df) :
            LET padded == Prefix(zfill(astype_str(RawRow(r).code_insee_commune),
                                       5), 2)
            IN  /\ r.code_departement.k = "str"
                /\ Len(r.code_departement.s) = 2
                /\ IF padded = <<"2","0">>
                   THEN r.code_departement.s \in {<<"2","A">>, <<"2","B">>}
                   ELSE r.code_departement.s = padded

\* C5: after clean_location every record has lat and lon both non-null
\* finite numbers, in every later stage too.
C5_FiniteCoordinates ==
    Did("clean_location") =>
        \A r \in Rows(df) : r.lat.k = "num" /\ r.lon.k = "num"

\* C6: after feature_engineer_power every record has a category; a power in
\* [0,11), [11,50), [50,150), [150,inf) has that band's label and a missing
\* power has Inconnue.
C6_PowerBands ==
    Did("feature_engineer_power") =>
        \A r \in Rows(df) :
            LET p == r.puissance_nominale
                c == r.categorie_puissance
            IN  /\ c.k = "cat"
                /\ (isna(p) => c = Cat("Inconnue"))
                /\ (p.k = "num" /\ 0 <= p.v /\ p.v < 11
                      => c = Cat("Charge Lente (<11kW)"))
                /\ (p.k = "num" /\ 11 <= p.v /\ p.v < 50
                      => c = Cat("Charge Acceleree (11-50kW)"))
                /\ (p.k = "num" /\ 50 <= p.v /\ p.v < 150
                      => c = Cat("Charge Rapide (50-150kW)"))
                /\ (p.k = "num" /\ 150 <= p.v
                      => c = Cat("Charge Ultra-Rapide (>150kW)"))

\* C6 witness: a power of exactly 11 was labelled with the 11-50 band and a
\* missing power with Inconnue.
C6_Witness ==
    /\ pc = "returned"
    /\ \E r \in Rows(df) :
           /\ r.puissance_nominale = Num(11)
           /\ r.categorie_puissance = Cat("Charge Acceleree (11-50kW)")
    /\ \E r \in Rows(df) :
           /\ isna(r.puissance_nominale)
           /\ r.categorie_puissance = Cat("Inconnue")

\* the raw dates of the inputs that are valid days, with their year
ValidRawDates ==
    {<<Str(<<"2","0","2","1","-","0","5","-","1","7">>), 2021>>,
     <<Str(<<"2","0","2","4","-","0","2","-","2","9">>), 2024>>,
     <<Str(<<"2","2","6","2","-","0","4","-","1","1">>), 2262>>}

\* C7: annee_mes is null, never zero, exactly when date_mise_en_service is
\* null, which is the case for every raw date that is missing or is not a
\* valid day; otherwise it is the year of the date.
C7_YearOfDate ==
    Did("feature_engineer_time") =>
        \A r \in Rows(df) :
            LET rawdate == RawRow(r).date_mise_en_service
                d == r.date_mise_en_service
            IN  /\ r.annee_mes # Int64(0) /\ r.annee_mes # Num(0)
                /\ isna(r.annee_mes) <=> isna(d)
                /\ (~isna(d) => r.annee_mes = Int64(d.v \div 10000))
                /\ \A vd \in ValidRawDates :
                       rawdate = vd[1] => r.annee_mes = Int64(vd[2])
                /\ (\A vd \in ValidRawDates : rawdate # vd[1])
                       => isna(d) /\ isna(r.annee_mes)

\* C7 witness: the pipeline returned a record whose unparsable date gave a
\* null year and a record whose date gave the year 2024.
C7_Witness ==
    /\ pc = "returned"
    /\ \E r \in Rows(df) :
           RawRow(r).date_mise_en_service = Str(<<"a","b","c">>) /\ isna(r.annee_mes)
    /\ \E r \in Rows(df) :
           RawRow(r).date_mise_en_service = Str(<<"2","0","2","4","-","0","2","-","2","9">>) /\ r.annee_mes = Int64(2024)

Downstream == {"sidebar", "filter", "render"}

\* load_data has returned to the script
LoadReturned ==
    \/ pc \in {"loaded", "stopped", "filter", "render", "finished"}
    \/ (pc = "raised" /\ Did("sidebar"))

\* C8: when load_data returns a table with zero rows, nothing was raised and
\* the script stops before the sidebar, the filtering and the rendering.
C8_EmptyHalts ==
    (loader = "app" /\ LoadReturned /\ empty(df)) =>
        /\ exc = "none"
        /\ pc \in {"loaded", "stopped"}
        /\ calls \cap Downstream = {}
        /\ df_filtered = EmptyFrame /\ sel = NoSelection

\* C8 witness: the script stopped on a table whose rows were all dropped by
\* the cleaning.
C8_Witness ==
    /\ loader = "app" /\ pc = "stopped"
    /\ Len(raw.rows) > 0 /\ empty(df)
    /\ Did("clean_location")

\* C9: a second clean_data call returns the same table as the first, on a
\* fresh copy of the raw input and on the object the first call modified.
C9_Idempotent ==
    (run = 2 /\ pc = "returned") => df = out1

\* C9 witness: the second call ran on the object the first call had
\* modified, and both the location stage and the outlier stage dropped rows.
C9_Witness ==
    /\ run = 2 /\ pc = "returned" /\ mode = "same"
    /\ Len(pre.rows) < Len(raw.rows)
    /\ Len(df.rows) < Len(pre.rows)
    /\ Len(df.rows) > 0

\* C10: the filtered table holds exactly the cleaned records whose operator
\* is selected, whose power is within the selected range and whose gratuit
\* is the choice unless the choice is Tous; a record with a missing power is
\* never in it.
C10_FilterConjunction ==
    pc \in {"render", "finished"} =>
        /\ \A r \in Rows(df) :
               (r \in Rows(df_filtered)) <=>
                   /\ r.nom_operateur \in sel.ops
                   /\ r.puissance_nominale.k = "num"
                   /\ sel.lo <= r.puissance_nominale.v
                   /\ r.puissance_nominale.v <= sel.hi
                   /\ (sel.gratuit = Tous \/ r.gratuit = sel.gratuit)
        /\ Rows(df_filtered) \subseteq Rows(df)
        /\ \A r \in Rows(df_filtered) : ~isna(r.puissance_nominale)

\* C10 witness: with every operator, the full power range and Tous selected,
\* a cleaned record with a missing power is absent from a non-empty filtered
\* table.
C10_Witness ==
    /\ pc = "render"
    /\ sel.ops = all_operators(df) /\ sel.gratuit = Tous
    /\ sel.lo = min_power(df) /\ sel.hi = max_power(df)
    /\ \E r \in Rows(df) : isna(r.puissance_nominale)
    /\ Len(df_filtered.rows) > 0
    /\ Len(df_filtered.rows) < Len(df.rows)

====
